---- MODULE Spec2Model ----
(***************************************************************************)
(* Model of the template-review core of gilbertofp16/gen_ai_repo:          *)
(*   validators/rules.ts      validateTemplate and its four rule groups    *)
(*   enhancers/optimizer.ts   enhanceTemplate and its four rewrite passes  *)
(*   analyzers/structure.ts   analyzeTemplate and the three quality scores *)
(*   analyzers/patterns.ts    analyzePatterns and its two rule catalogues  *)
(*                                                                         *)
(* A template is a JavaScript string.  It is modelled as a TLA+ string and *)
(* every regular expression of the source is modelled by an operator that  *)
(* scans the characters the way the expression does.  The texts are ASCII: *)
(* the only line terminator is "\n" and the bullet glyph U+2022 of the     *)
(* bullet character classes does not occur.                                 *)
(***************************************************************************)
EXTENDS Integers, Sequences, FiniteSets, TLC

VARIABLES
    op,          \* the operation the transport wrapper dispatched to
    pc,          \* position inside that operation
    content,     \* the template text handed to the operation
    violations,  \* validateTemplate: the violation list
    isValid,     \* validateTemplate: the verdict
    enhanced,    \* enhanceTemplate: enhancedContent, rewritten by each pass
    changes,     \* enhanceTemplate: the change log
    sections,    \* enhanceTemplate: identifySections(content)
    structureAnalysis, \* analyze: what analyzeTemplate returned
    contentAnalysis,   \* analyze: what analyzeContent returned
    patternIdx,  \* analyzePatterns: the catalogue rule whose loop is running
    lastIndex,   \* analyzePatterns: lastIndex of the RegExp object of every rule
    match,       \* analyzePatterns: what the last exec returned
    matches,     \* analyzePatterns: the occurrence records
    issues,      \* analyzePatterns: the deduplicated issue messages
    suggestions, \* analyzePatterns: one suggestion per issue
    score,       \* analyzePatterns: the returned score
    calls        \* the number of times the operation was entered in this process

validateVars == <<violations, isValid>>

enhanceVars == <<enhanced, changes, sections>>

analyzeVars == <<structureAnalysis, contentAnalysis, patternIdx, lastIndex, match, matches,
                 issues, suggestions, score, calls>>

vars == <<op, pc, content, validateVars, enhanceVars, analyzeVars>>

(***************************************************************************)
(* Strings                                                                 *)
(***************************************************************************)
UpperLetters == "ABCDEFGHIJKLMNOPQRSTUVWXYZ"

LowerLetters == "abcdefghijklmnopqrstuvwxyz"

Digits == "0123456789"

At(s, i) == SubSeq(s, i, i)

CharsOf(s) == {At(s, i) : i \in 1..Len(s)}

UpperSet == CharsOf(UpperLetters)

LowerSet == CharsOf(LowerLetters)

\* \w of a RegExp without the u flag
WordSet == UpperSet \cup LowerSet \cup CharsOf(Digits) \cup {"_"}

\* \s of a RegExp, and the characters String.prototype.trim removes
SpaceSet == {" ", "\t", "\n", "\r", "\f"}

\* the characters after which ^ matches and before which $ matches under /m
LineTerminators == {"\n", "\r"}

LowerOf == [c \in UpperSet |-> At(LowerLetters, CHOOSE i \in 1..26 : At(UpperLetters, i) = c)]

UpperOf == [c \in LowerSet |-> At(UpperLetters, CHOOSE i \in 1..26 : At(LowerLetters, i) = c)]

LowerChar(c) == IF c \in UpperSet THEN LowerOf[c] ELSE c

UpperChar(c) == IF c \in LowerSet THEN UpperOf[c] ELSE c

Min(a, b) == IF a < b THEN a ELSE b

Max(a, b) == IF a > b THEN a ELSE b

\* the element of a singleton set: The({e(x) : x \in {v}}) is e(v) with v computed once
The(S) == CHOOSE x \in S : TRUE

\* String.prototype.toLowerCase (up = FALSE) and toUpperCase (up = TRUE), by halves;
\* a stretch with no letter of the other case maps to itself
RECURSIVE MapCase(_, _)
MapCase(s, up) ==
    IF \A i \in 1..Len(s) : At(s, i) \notin (IF up THEN LowerSet ELSE UpperSet) THEN s
    ELSE IF Len(s) = 1 THEN (IF up THEN UpperChar(s) ELSE LowerChar(s))
    ELSE LET h == Len(s) \div 2
         IN  MapCase(SubSeq(s, 1, h), up) \o MapCase(SubSeq(s, h + 1, Len(s)), up)

toLowerCase(s) == MapCase(s, FALSE)

toUpperCase(s) == MapCase(s, TRUE)

\* the literal lit occurs in s at position i
LitAt(s, i, lit) ==
    /\ i >= 1
    /\ i + Len(lit) - 1 <= Len(s)
    /\ SubSeq(s, i, i + Len(lit) - 1) = lit

\* the same under the i flag
LitAtCI(s, i, lit) ==
    /\ i >= 1
    /\ i + Len(lit) - 1 <= Len(s)
    /\ \A k \in 1..Len(lit) : LowerChar(At(s, i + k - 1)) = LowerChar(At(lit, k))

includes(s, sub) == \E i \in 1..(Len(s) + 1) : LitAt(s, i, sub)

\* ^ under the m flag
LineStart(s, i) == i = 1 \/ (i >= 2 /\ i <= Len(s) + 1 /\ At(s, i - 1) \in LineTerminators)

\* $ under the m flag
LineEnd(s, i) == i = Len(s) + 1 \/ (i >= 1 /\ i <= Len(s) /\ At(s, i) \in LineTerminators)

\* the least j in lo..hi with P(j), hi + 1 if there is none: where a left-to-right scan stops
FirstIn(lo, hi, P(_)) ==
    IF lo > hi THEN lo
    ELSE CHOOSE j \in lo..(hi + 1) : (j = hi + 1 \/ P(j)) /\ \A k \in lo..(j - 1) : ~P(k)

\* first position >= i whose character is not in set (inside) or is in set (~inside);
\* Len(s) + 1 if none: the end of a greedy run of a character class
SkipWhile(s, i, set, inside) ==
    LET Stop(j) == (At(s, j) \in set) # inside
    IN  FirstIn(i, Len(s), Stop)

\* String.prototype.trim
trim(s) ==
    LET first == SkipWhile(s, 1, SpaceSet, TRUE)
        IsLast(n) == (n = 0 \/ At(s, n) \notin SpaceSet)
                        /\ \A k \in (n + 1)..Len(s) : At(s, k) \in SpaceSet
        last == CHOOSE n \in 0..Len(s) : IsLast(n)
    IN  SubSeq(s, first, last)

\* String.prototype.split with a separator that is a run of characters of seps when
\* runs is TRUE (the RegExp /[...]+/) and a single character otherwise ('\n')
RECURSIVE SplitFrom(_, _, _, _)
SplitFrom(s, start, seps, runs) ==
    LET p == SkipWhile(s, start, seps, FALSE)
    IN  IF p > Len(s) THEN <<SubSeq(s, start, Len(s))>>
        ELSE LET next == IF runs THEN SkipWhile(s, p, seps, TRUE) ELSE p + 1
             IN  <<SubSeq(s, start, p - 1)>> \o SplitFrom(s, next, seps, runs)

split(s, seps, runs) == SplitFrom(s, 1, seps, runs)

\* Array.prototype.join
RECURSIVE join(_, _)
join(parts, sep) ==
    IF parts = <<>> THEN ""
    ELSE IF Len(parts) = 1 THEN parts[1]
    ELSE parts[1] \o sep \o join(Tail(parts), sep)

(***************************************************************************)
(* validators/rules.ts                                                     *)
(***************************************************************************)
Violation(rule, message, severity) ==
    [rule |-> rule, message |-> message, severity |-> severity]

sectionOrder == <<"ROLE", "CONTEXT", "TASK", "FORMAT", "OUTPUT">>

\* /^(l1|l2|...):/im.test(text) for the labels given
TestSection(text, labels) ==
    \E i \in 1..Len(text) :
        /\ LineStart(text, i)
        /\ \E l \in labels : LitAtCI(text, i, l \o ":")

\* line.match(/^(ROLE|CONTEXT|TASK|FORMAT|OUTPUT):/i): match[1].toUpperCase(), or "" for null
SectionOfLine(line) ==
    LET hit == {k \in 1..Len(sectionOrder) : LitAtCI(line, 1, sectionOrder[k] \o ":")}
    IN  IF hit = {} THEN "" ELSE sectionOrder[CHOOSE k \in hit : TRUE]

RECURSIVE MapSections(_)
MapSections(lines) ==
    IF lines = <<>> THEN <<>>
    ELSE LET sec == SectionOfLine(lines[1])
         IN  (IF sec = "" THEN <<>> ELSE <<sec>>) \o MapSections(Tail(lines))

foundSections(text) == MapSections(split(text, {"\n"}, FALSE))

\* sectionOrder.indexOf(section), 0-based
indexOf(section) == (CHOOSE k \in 1..Len(sectionOrder) : sectionOrder[k] = section) - 1

OrderViolation(section) ==
    Violation("section-order",
              "Section " \o section
                  \o " is out of order. Expected order: ROLE, CONTEXT, TASK, FORMAT, OUTPUT",
              "warning")

\* the forEach over foundSections: currentIndex < lastIndex, then lastIndex = currentIndex
RECURSIVE CheckOrder(_, _)
CheckOrder(found, last) ==
    IF found = <<>> THEN <<>>
    ELSE LET currentIndex == indexOf(found[1])
         IN  (IF currentIndex < last THEN <<OrderViolation(found[1])>> ELSE <<>>)
                 \o CheckOrder(Tail(found), currentIndex)

validateStructure(text) ==
    (IF ~TestSection(text, {"ROLE"})
        THEN <<Violation("required-sections", "Missing ROLE section", "error")>> ELSE <<>>)
    \o (IF ~TestSection(text, {"CONTEXT"})
        THEN <<Violation("required-sections", "Missing CONTEXT section", "error")>> ELSE <<>>)
    \o (IF ~TestSection(text, {"TASK"})
        THEN <<Violation("required-sections", "Missing TASK section", "error")>> ELSE <<>>)
    \o (IF ~TestSection(text, {"FORMAT", "OUTPUT"})
        THEN <<Violation("required-sections", "Missing FORMAT/OUTPUT section", "warning")>>
        ELSE <<>>)
    \o CheckOrder(foundSections(text), -1)

RECURSIVE LongSentences(_)
LongSentences(sentences) ==
    IF sentences = <<>> THEN <<>>
    ELSE (IF Len(trim(sentences[1])) > 150
          THEN <<Violation("sentence-length",
                           "Sentence exceeds recommended length of 150 characters",
                           "warning")>>
          ELSE <<>>) \o LongSentences(Tail(sentences))

\* /\([^()]*\([^()]*\)[^()]*\)/.test(text)
nestedParens(text) ==
    \E i \in 1..Len(text) :
        /\ At(text, i) = "("
        /\ LET j == SkipWhile(text, i + 1, {"(", ")"}, FALSE)
               k == SkipWhile(text, j + 1, {"(", ")"}, FALSE)
               l == SkipWhile(text, k + 1, {"(", ")"}, FALSE)
           IN  /\ l <= Len(text)
               /\ At(text, j) = "("
               /\ At(text, k) = ")"
               /\ At(text, l) = ")"

\* \b at position i: exactly one of the characters before and at i is a word character
WordBoundary(text, i) ==
    LET before == i >= 2 /\ i - 1 <= Len(text) /\ At(text, i - 1) \in WordSet
        after == i >= 1 /\ i <= Len(text) /\ At(text, i) \in WordSet
    IN  before # after

\* mutant of TestTerm: the expression without its two \b
TestTermAnywhere(text, term) == \E i \in 1..Len(text) : LitAtCI(text, i, term)

\* new RegExp(`\\b${term}\\b`, 'i').test(text)
TestTerm(text, term) ==
    \E i \in 1..Len(text) :
        /\ LitAtCI(text, i, term)
        /\ WordBoundary(text, i)
        /\ WordBoundary(text, i + Len(term))

ambiguousTerms == <<"maybe", "probably", "possibly", "might", "could", "should", "would">>

AmbiguousMessage(term) == "Avoid ambiguous terms like \"" \o term \o "\""

RECURSIVE CheckTerms(_, _)
CheckTerms(text, k) ==
    IF k > Len(ambiguousTerms) THEN <<>>
    ELSE (IF TestTerm(text, ambiguousTerms[k])
          THEN <<Violation("ambiguous-language", AmbiguousMessage(ambiguousTerms[k]),
                           "warning")>>
          ELSE <<>>) \o CheckTerms(text, k + 1)

validateContent(text) ==
    LongSentences(split(text, {".", "!", "?"}, TRUE))
    \o (IF nestedParens(text)
        THEN <<Violation("nested-instructions", "Avoid nested parentheses in instructions",
                         "warning")>>
        ELSE <<>>)
    \o CheckTerms(text, 1)

\* length of the match of /{{[^}]+}}/ that starts at position i, 0 if none
DoubleBraceAt(text, i) ==
    IF ~LitAt(text, i, "{{") THEN 0
    ELSE LET j == SkipWhile(text, i + 2, {"}"}, FALSE)
         IN  IF j > i + 2 /\ LitAt(text, j, "}}") THEN j + 2 - i ELSE 0

\* length of the match of /[[]\w-]+]/ that starts at position i, 0 if none: the class
\* [[] holds only "[", so the expression reads "[", one \w, "-", one or more "]", "]"
BracketFormatAt(text, i) ==
    IF ~(LitAt(text, i, "[") /\ i + 2 <= Len(text) /\ At(text, i + 1) \in WordSet
            /\ At(text, i + 2) = "-")
    THEN 0
    ELSE LET j == SkipWhile(text, i + 3, {"]"}, TRUE)
         IN  IF j - (i + 3) >= 2 THEN j - i ELSE 0

\* length of the match of /\${[\w-]+}/ that starts at position i, 0 if none
DollarBraceAt(text, i) ==
    IF ~LitAt(text, i, "${") THEN 0
    ELSE LET j == SkipWhile(text, i + 2, WordSet \cup {"-"}, TRUE)
         IN  IF j > i + 2 /\ LitAt(text, j, "}") THEN j + 1 - i ELSE 0

\* length of the match of /\[[\w-]+]/ that starts at position i, 0 if none
BracketAt(text, i) ==
    IF ~LitAt(text, i, "[") THEN 0
    ELSE LET j == SkipWhile(text, i + 1, WordSet \cup {"-"}, TRUE)
         IN  IF j > i + 1 /\ LitAt(text, j, "]") THEN j + 1 - i ELSE 0

\* the variable expressions by name; "any" is /{{[^}]+}}|\[[\w-]+]|\${[\w-]+}/
MatchAt(re, text, i) ==
    CASE re = "doubleBrace" -> DoubleBraceAt(text, i)
      [] re = "bracketFormat" -> BracketFormatAt(text, i)
      [] re = "dollarBrace" -> DollarBraceAt(text, i)
      [] re = "any" ->
            IF DoubleBraceAt(text, i) > 0 THEN DoubleBraceAt(text, i)
            ELSE IF BracketAt(text, i) > 0 THEN BracketAt(text, i)
            ELSE DollarBraceAt(text, i)

\* text.match(re) for a g-flag expression that matches no empty string: the matched
\* substrings, leftmost first, each search resuming where the last match ended
RECURSIVE MatchAll(_, _, _)
MatchAll(text, i, re) ==
    LET Hit(j) == At(text, j) \in {"{", "[", "$"} /\ MatchAt(re, text, j) > 0
        p == FirstIn(i, Len(text), Hit)
    IN  IF p > Len(text) THEN <<>>
        ELSE LET n == MatchAt(re, text, p)
             IN  <<SubSeq(text, p, p + n - 1)>> \o MatchAll(text, p + n, re)

\* the map/filter over variableFormats: how many of the three formats have a match
foundFormats(text) ==
    (IF MatchAll(text, 1, "doubleBrace") # <<>> THEN 1 ELSE 0)
    + (IF MatchAll(text, 1, "bracketFormat") # <<>> THEN 1 ELSE 0)
    + (IF MatchAll(text, 1, "dollarBrace") # <<>> THEN 1 ELSE 0)

\* /^{{[\w-]+}}$/.test(variable)
ValidVariable(variable) ==
    /\ LitAt(variable, 1, "{{")
    /\ LET j == SkipWhile(variable, 3, WordSet \cup {"-"}, TRUE)
       IN  j > 3 /\ LitAt(variable, j, "}}") /\ j + 1 = Len(variable)

RECURSIVE CheckNaming(_)
CheckNaming(variables) ==
    IF variables = <<>> THEN <<>>
    ELSE (IF ~ValidVariable(variables[1])
          THEN <<Violation("variable-naming",
                           "Invalid variable format: " \o variables[1]
                               \o ". Use alphanumeric characters and hyphens only",
                           "error")>>
          ELSE <<>>) \o CheckNaming(Tail(variables))

validateVariables(text) ==
    LET variables == MatchAll(text, 1, "doubleBrace")
    IN  (IF foundFormats(text) > 1
         THEN <<Violation("variable-format",
                          "Inconsistent variable formats detected. Use {{variableName}} format consistently",
                          "error")>>
         ELSE <<>>)
        \o CheckNaming(variables)
        \o (IF variables = <<>> /\ Len(text) > 500
            THEN <<Violation("variable-usage",
                             "Consider using variables for dynamic content in longer templates",
                             "warning")>>
            ELSE <<>>)

\* the Set of bullet[0] over text.match(/^[-*...]\s/gm)
bulletStyles(text) ==
    {At(text, i) : i \in {k \in 1..(Len(text) - 1) :
        /\ LineStart(text, k)
        /\ At(text, k) \in {"-", "*"}
        /\ At(text, k + 1) \in SpaceSet}}

\* some match of /^(ROLE|CONTEXT|TASK|FORMAT|OUTPUT):/gim differs from its upper case
inconsistentCase(text) ==
    \E i \in 1..Len(text) :
        /\ LineStart(text, i)
        /\ \E k \in 1..Len(sectionOrder) :
            /\ LitAtCI(text, i, sectionOrder[k] \o ":")
            /\ ~LitAt(text, i, sectionOrder[k] \o ":")

\* /[ \t]+$/m.test(text)
trailingWhitespace(text) ==
    \E i \in 1..Len(text) : At(text, i) \in {" ", "\t"} /\ LineEnd(text, i + 1)

validateFormat(text) ==
    (IF Cardinality(bulletStyles(text)) > 1
        THEN <<Violation("bullet-consistency",
                         "Use consistent bullet point style throughout the template",
                         "warning")>>
        ELSE <<>>)
    \o (IF inconsistentCase(text)
        THEN <<Violation("section-case",
                         "Use consistent uppercase for section headers (ROLE:, CONTEXT:, etc.)",
                         "warning")>>
        ELSE <<>>)
    \o (IF includes(text, "\n\n\n")
        THEN <<Violation("section-spacing", "Use exactly one blank line between sections",
                         "warning")>>
        ELSE <<>>)
    \o (IF trailingWhitespace(text)
        THEN <<Violation("trailing-whitespace", "Remove trailing whitespace", "warning")>>
        ELSE <<>>)

\* templateSchema.parse({ content }): z.string().min(1, ...) rejects a string of length 0
templateSchema(text) ==
    IF Len(text) < 1
    THEN <<Violation("schema", "Template content cannot be empty", "error")>>
    ELSE <<>>

\* the violations array validateTemplate has built when it returns
validateTemplate(text) ==
    templateSchema(text)
    \o validateStructure(text)
    \o validateContent(text)
    \o validateVariables(text)
    \o validateFormat(text)

\* mutant of verdict: warnings do not count against validity
verdictErrorsOnly(found) == \A k \in 1..Len(found) : found[k].severity # "error"

\* the isValid field of the returned object
verdict(found) == Len(found) = 0

(***************************************************************************)
(* enhancers/optimizer.ts                                                  *)
(* Every pass returns [text |-> the rewritten text, log |-> the entries it *)
(* pushed on changes].                                                     *)
(***************************************************************************)
identifySections(text) ==
    [role |-> TestSection(text, {"ROLE"}),
     context |-> TestSection(text, {"CONTEXT"}),
     task |-> TestSection(text, {"TASK"}),
     format |-> TestSection(text, {"FORMAT", "OUTPUT"})]

inferRole(text) ==
    LET low == toLowerCase(text)
    IN  IF includes(low, "review") \/ includes(low, "analyze")
            THEN "reviewing and analyzing content"
        ELSE IF includes(low, "create") \/ includes(low, "generate")
            THEN "creating and generating content"
        ELSE IF includes(low, "improve") \/ includes(low, "enhance")
            THEN "improving and enhancing content"
        ELSE IF includes(low, "explain") \/ includes(low, "teach")
            THEN "explaining concepts and teaching"
        ELSE "assisting with the specified task"

\* new RegExp(`(^${section}.*?\n)`, 'm'): the first line that starts with section, in
\* the case written, and ends in "\n"; the replacement is `$1\n${insertion}`
insertAfterSection(text, section, insertion) ==
    LET NewlineOf(i) == SkipWhile(text, i + Len(section), LineTerminators, FALSE)
        Hit(i) == /\ LineStart(text, i)
                  /\ LitAt(text, i, section)
                  /\ NewlineOf(i) <= Len(text)
                  /\ At(text, NewlineOf(i)) = "\n"
        p == FirstIn(1, Len(text), Hit)
    IN  IF p > Len(text) THEN text
        ELSE SubSeq(text, 1, NewlineOf(p)) \o "\n" \o insertion
                \o SubSeq(text, NewlineOf(p) + 1, Len(text))

\* lines.slice(from, to): the elements at the 0-based indices from .. to - 1
slice(lines, from, to) == SubSeq(lines, from + 1, Min(to, Len(lines)))

\* the branch of addMissingSections for a text with no section at all
basicStructure(text) ==
    LET lines == split(trim(text), {"\n"}, FALSE)
        n == Min(3, Len(lines))
    IN  [text |-> "ROLE: You are an AI assistant tasked with " \o inferRole(lines[1]) \o "\n\n"
                    \o "CONTEXT: " \o join(slice(lines, 0, n), " ") \o "\n\n"
                    \o "TASK: " \o join(slice(lines, n, Len(lines)), " ") \o "\n\n"
                    \o "FORMAT: Provide your response in a clear, structured manner.",
         log |-> <<"Added basic template structure (ROLE, CONTEXT, TASK, FORMAT sections)">>]

addMissingSections(text, secs) ==
    IF ~secs.role /\ ~secs.context /\ ~secs.task /\ ~secs.format
    THEN basicStructure(text)
    ELSE LET e1 == IF ~secs.role
                   THEN "ROLE: You are an AI assistant tasked with " \o inferRole(text)
                            \o "\n\n" \o text
                   ELSE text
             e2 == IF ~secs.context
                   THEN insertAfterSection(e1, "ROLE:",
                            "CONTEXT: Working with the following information and requirements.\n\n")
                   ELSE e1
             e3 == IF ~secs.task
                   THEN trim(e2) \o "\n\nTASK: Complete the following objectives.\n"
                   ELSE e2
             e4 == IF ~secs.format
                   THEN trim(e3)
                            \o "\n\nFORMAT: Provide your response in a clear, structured manner.\n"
                   ELSE e3
         IN  [text |-> e4,
              log |-> (IF ~secs.role THEN <<"Added missing ROLE section">> ELSE <<>>)
                      \o (IF ~secs.context THEN <<"Added missing CONTEXT section">> ELSE <<>>)
                      \o (IF ~secs.task THEN <<"Added missing TASK section">> ELSE <<>>)
                      \o (IF ~secs.format THEN <<"Added missing FORMAT section">> ELSE <<>>)]

\* s without its characters that are in set: replace(/[...]/g, ''), by halves
RECURSIVE StripChars(_, _)
StripChars(s, set) ==
    IF Len(s) = 0 THEN ""
    ELSE IF Len(s) = 1 THEN (IF s \in set THEN "" ELSE s)
    ELSE LET h == Len(s) \div 2
         IN  StripChars(SubSeq(s, 1, h), set) \o StripChars(SubSeq(s, h + 1, Len(s)), set)

\* s.replace(/\s+/g, '_') on the characters lo..hi of s, by halves: the first character
\* of a run of whitespace becomes "_" and the others go
RECURSIVE Underscore(_, _, _)
Underscore(s, lo, hi) ==
    IF lo > hi THEN ""
    ELSE IF lo = hi
         THEN IF At(s, lo) \notin SpaceSet THEN At(s, lo)
              ELSE IF lo = 1 \/ At(s, lo - 1) \notin SpaceSet THEN "_"
              ELSE ""
    ELSE LET h == (lo + hi) \div 2
         IN  Underscore(s, lo, h) \o Underscore(s, h + 1, hi)

\* the {{cleanName}} a variable token is normalised to
normalizedVar(variable) ==
    The({"{{" \o Underscore(stripped, 1, Len(stripped)) \o "}}" :
            stripped \in {trim(StripChars(variable, {"{", "}", "[", "]", "$"}))}})

\* text.replace(from, to) for a string from: the first occurrence only
replaceFirst(text, from, to) ==
    LET Hit(i) == LitAt(text, i, from)
        p == FirstIn(1, Len(text), Hit)
    IN  IF p > Len(text) THEN text
        ELSE SubSeq(text, 1, p - 1) \o to \o SubSeq(text, p + Len(from), Len(text))

\* the forEach over variables: the text after the first k replacements
RECURSIVE NormalizeUpTo(_, _, _)
NormalizeUpTo(text, variables, k) ==
    IF k = 0 THEN text
    ELSE LET before == NormalizeUpTo(text, variables, k - 1)
         IN  IF variables[k] # normalizedVar(variables[k])
             THEN replaceFirst(before, variables[k], normalizedVar(variables[k]))
             ELSE before

\* the keys of the Map normalized, in insertion order
RECURSIVE NormalizedKeys(_, _)
NormalizedKeys(variables, k) ==
    IF k = 0 THEN <<>>
    ELSE LET before == NormalizedKeys(variables, k - 1)
         IN  IF variables[k] # normalizedVar(variables[k])
                /\ \A j \in 1..Len(before) : before[j] # variables[k]
             THEN Append(before, variables[k])
             ELSE before

\* the log entry of formatTemplateVariables; its arrow U+2192 is written "->"
NormalizedEntry(keys) ==
    "Normalized variable format to {{variableName}} style: "
        \o join([j \in 1..Len(keys) |-> keys[j] \o " -> " \o normalizedVar(keys[j])], ", ")

formatTemplateVariables(text) ==
    The({IF variables = <<>> THEN [text |-> text, log |-> <<>>]
         ELSE [text |-> NormalizeUpTo(text, variables, Len(variables)),
               log |-> The({IF keys # <<>> THEN <<NormalizedEntry(keys)>> ELSE <<>> :
                               keys \in {NormalizedKeys(variables, Len(variables))}})] :
            variables \in {MatchAll(text, 1, "any")}})

\* the label of sectionOrder matched at position i of text, "" if none; ci is the i flag
LabelAt(text, i, ci) ==
    LET hit == {k \in 1..Len(sectionOrder) :
                  IF ci THEN LitAtCI(text, i, sectionOrder[k] \o ":")
                  ELSE LitAt(text, i, sectionOrder[k] \o ":")}
    IN  IF hit = {} THEN "" ELSE sectionOrder[CHOOSE k \in hit : TRUE]

\* replace(/^(role|context|task|format|output):/gim, (match) => match.toUpperCase())
RECURSIVE capitalizeSections(_, _)
capitalizeSections(text, from) ==
    LET Hit(i) == LineStart(text, i) /\ LabelAt(text, i, TRUE) # ""
        p == FirstIn(from, Len(text), Hit)
    IN  IF p > Len(text) THEN SubSeq(text, from, Len(text))
        ELSE LET label == LabelAt(text, p, TRUE)
             IN  SubSeq(text, from, p - 1) \o label \o ":"
                     \o capitalizeSections(text, p + Len(label) + 1)

\* replace(/([^\n])\n(ROLE|CONTEXT|TASK|FORMAT|OUTPUT):/g, '$1\n\n$2:'): a match takes
\* the character before the "\n", and the next search starts after the matched label
RECURSIVE separateSections(_, _)
separateSections(text, from) ==
    LET Hit(i) == /\ LitAt(text, i + 1, "\n")
                  /\ At(text, i) # "\n"
                  /\ LabelAt(text, i + 2, FALSE) # ""
        p == FirstIn(from, Len(text), Hit)
    IN  IF p > Len(text) THEN SubSeq(text, from, Len(text))
        ELSE LET label == LabelAt(text, p + 2, FALSE)
             IN  SubSeq(text, from, p) \o "\n\n" \o label \o ":"
                     \o separateSections(text, p + 2 + Len(label) + 1)

\* /^[-*...]/m.test(text)
hasBullets(text) == \E i \in 1..Len(text) : At(text, i) \in {"-", "*"} /\ LineStart(text, i)

\* replace(/^[-*...]\s*/gm, '- '): the glyph and all whitespace after it, newlines too
RECURSIVE standardizeBullets(_, _)
standardizeBullets(text, from) ==
    LET Hit(i) == At(text, i) \in {"-", "*"} /\ LineStart(text, i)
        p == FirstIn(from, Len(text), Hit)
    IN  IF p > Len(text) THEN SubSeq(text, from, Len(text))
        ELSE SubSeq(text, from, p - 1) \o "- "
                 \o standardizeBullets(text, SkipWhile(text, p + 1, SpaceSet, TRUE))

\* replace(/[ \t]+$/gm, ''): every run of blanks and tabs that reaches the end of its line
RECURSIVE stripTrailing(_, _)
stripTrailing(text, from) ==
    LET RunEnd(i) == SkipWhile(text, i, {" ", "\t"}, TRUE)
        Hit(i) == At(text, i) \in {" ", "\t"} /\ LineEnd(text, RunEnd(i))
        p == FirstIn(from, Len(text), Hit)
    IN  IF p > Len(text) THEN SubSeq(text, from, Len(text))
        ELSE SubSeq(text, from, p - 1) \o stripTrailing(text, RunEnd(p))

improveFormatting(text) ==
    LET e1 == capitalizeSections(text, 1)
        e2 == separateSections(e1, 1)
        e3 == IF hasBullets(e2) THEN standardizeBullets(e2, 1) ELSE e2
        e4 == stripTrailing(e3, 1)
    IN  [text |-> e4,
         log |-> (IF hasBullets(e2) THEN <<"Standardized bullet point format to \"-\"">>
                  ELSE <<>>)
                 \o (IF e4 # e3 THEN <<"Removed trailing whitespace">> ELSE <<>>)]

\* the filter of removeRedundancies over lines[k..]: seen is uniqueLines and dups is
\* duplicates so far; the result holds the lines kept and the final duplicates
RECURSIVE FilterLines(_, _, _, _)
FilterLines(lines, k, seen, dups) ==
    IF k > Len(lines) THEN [kept |-> <<>>, dups |-> dups]
    ELSE LET normalized == toLowerCase(trim(lines[k]))
         IN  IF normalized = "" \/ LabelAt(normalized, 1, TRUE) # ""
             THEN LET rest == FilterLines(lines, k + 1, seen, dups)
                  IN  [kept |-> <<lines[k]>> \o rest.kept, dups |-> rest.dups]
             ELSE IF normalized \in seen
             THEN FilterLines(lines, k + 1, seen, dups \cup {normalized})
             ELSE LET rest == FilterLines(lines, k + 1, seen \cup {normalized}, dups)
                  IN  [kept |-> <<lines[k]>> \o rest.kept, dups |-> rest.dups]

removeRedundancies(text) ==
    LET filtered == FilterLines(split(text, {"\n"}, FALSE), 1, {}, {})
    IN  IF Cardinality(filtered.dups) > 0
        THEN [text |-> join(filtered.kept, "\n"),
              log |-> <<"Removed " \o ToString(Cardinality(filtered.dups))
                            \o " duplicate instruction(s)">>]
        ELSE [text |-> text, log |-> <<>>]

(***************************************************************************)
(* analyzers/structure.ts: the quality values are kept in tenths, 10 is 1.0 *)
(***************************************************************************)
\* the sum of the lengths of the strings of a sequence
RECURSIVE SumLen(_)
SumLen(parts) == IF parts = <<>> THEN 0 ELSE Len(parts[1]) + SumLen(Tail(parts))

\* (content.match(/\([^()]*\)/g) || []).length: a "(" whose next parenthesis is a ")"
nestedCount(text) ==
    Cardinality({i \in 1..Len(text) :
        /\ At(text, i) = "("
        /\ LET j == SkipWhile(text, i + 1, {"(", ")"}, FALSE)
           IN  j <= Len(text) /\ At(text, j) = ")"})

\* /^[A-Z]+:/m.test(content)
hasMarkers(text) ==
    \E i \in 1..Len(text) :
        /\ LineStart(text, i)
        /\ At(text, i) \in UpperSet
        /\ LET j == SkipWhile(text, i, UpperSet, TRUE)
           IN  j <= Len(text) /\ At(text, j) = ":"

\* mutant of calculateClarity: the score returned as computed, without Math.max/Math.min
calculateClarityRaw(text) ==
    LET sentences == split(text, {".", "!", "?"}, TRUE)
        total == SumLen(sentences)
    IN  10 - (IF total > 100 * Len(sentences) THEN 2 ELSE 0)
           - (IF total > 150 * Len(sentences) THEN 3 ELSE 0)
           - nestedCount(text)
           + (IF hasMarkers(text) THEN 2 ELSE 0)

calculateClarity(text) ==
    LET sentences == split(text, {".", "!", "?"}, TRUE)
        total == SumLen(sentences)
        raw == 10 - (IF total > 100 * Len(sentences) THEN 2 ELSE 0)
                  - (IF total > 150 * Len(sentences) THEN 3 ELSE 0)
                  - nestedCount(text)
                  + (IF hasMarkers(text) THEN 2 ELSE 0)
    IN  Max(0, Min(10, raw))

calculateConciseness(text) ==
    LET words == split(toLowerCase(text), SpaceSet, TRUE)
        Freq(w) == Cardinality({k \in 1..Len(words) : words[k] = w})
        repetitiveWords == Cardinality({w \in {words[k] : k \in 1..Len(words)} : Freq(w) > 3})
        raw == 10 - repetitiveWords
                  - (IF Len(text) > 500 THEN 2 ELSE 0)
                  - (IF Len(text) > 1000 THEN 3 ELSE 0)
    IN  Max(0, Min(10, raw))

\* some match of /\b(w1|w2|...)\b/ for the words given, case-sensitive
TestWord(text, words) ==
    \E i \in 1..Len(text) :
        \E w \in words :
            LitAt(text, i, w) /\ WordBoundary(text, i) /\ WordBoundary(text, i + Len(w))

\* new Set(content.match(/^[-*]/gm)): the distinct bullet characters at a line start
lineBullets(text) ==
    {At(text, i) : i \in {k \in 1..Len(text) : LineStart(text, k) /\ At(text, k) \in {"-", "*"}}}

calculateConsistency(text) ==
    LET mixedTenses == TestWord(text, {"is", "are", "am"}) /\ TestWord(text, {"was", "were"})
        raw == 10 - (IF mixedTenses THEN 2 ELSE 0)
                  - (IF Cardinality(lineBullets(text)) > 1 THEN 2 ELSE 0)
    IN  Max(0, Min(10, raw))

analyzeTemplate(text, metadataType) ==
    LET low == toLowerCase(text)
        structure == [hasRole |-> includes(low, "role:"),
                      hasContext |-> includes(low, "context:"),
                      hasTask |-> includes(low, "task:"),
                      hasResponseFormat |-> includes(low, "format:") \/ includes(low, "output:")]
    IN  [structure |-> structure,
         quality |-> [clarity |-> calculateClarity(text),
                      conciseness |-> calculateConciseness(text),
                      consistency |-> calculateConsistency(text)],
         suggestions |->
            (IF ~structure.hasRole
                THEN <<"Add a clear role definition using \"ROLE:\" section">> ELSE <<>>)
            \o (IF ~structure.hasContext
                THEN <<"Include context information using \"CONTEXT:\" section">> ELSE <<>>)
            \o (IF ~structure.hasTask
                THEN <<"Specify the task using \"TASK:\" section">> ELSE <<>>)
            \o (IF ~structure.hasResponseFormat
                THEN <<"Define expected response format using \"FORMAT:\" or \"OUTPUT:\" section">>
                ELSE <<>>)
            \o (IF MatchAll(text, 1, "doubleBrace") = <<>>
                THEN <<"Consider using template variables (e.g., {{variableName}}) for dynamic content">>
                ELSE <<>>)
            \o (IF metadataType = "conversation"
                THEN <<"For conversation templates, consider adding turn-taking markers or conversation flow indicators">>
                ELSE <<>>)]

(***************************************************************************)
(* analyzers/content.ts                                                    *)
(***************************************************************************)
\* sum over the sentences of s.trim().split(/\s+/).length
RECURSIVE SumWords(_)
SumWords(sentences) ==
    IF sentences = <<>> THEN 0
    ELSE Len(split(trim(sentences[1]), SpaceSet, TRUE)) + SumWords(Tail(sentences))

\* (content.match(/\b\w{15,}\b/g) || []).length: the words of fifteen characters or more
complexWordCount(text) ==
    Cardinality({i \in 1..Len(text) :
        /\ At(text, i) \in WordSet
        /\ WordBoundary(text, i)
        /\ SkipWhile(text, i, WordSet, TRUE) - i >= 15})

vagueTerms == <<"etc", "and so on", "things", "stuff">>

RECURSIVE CheckVague(_, _)
CheckVague(low, k) ==
    IF k > Len(vagueTerms) THEN <<>>
    ELSE (IF includes(low, vagueTerms[k])
          THEN <<"Contains vague term: \"" \o vagueTerms[k] \o "\"">> ELSE <<>>)
             \o CheckVague(low, k + 1)

\* the suggestion pushed together with an issue
contentSuggestion(issue) ==
    CASE issue = "Tone is too prescriptive" -> "Consider using more collaborative language"
      [] issue = "Sentences are too long" ->
            "Break down long sentences into smaller, clearer statements"
      [] issue = "Contains complex or technical jargon" ->
            "Consider using simpler, more accessible language"
      [] OTHER -> "Be more specific and explicit"

analyzeContent(text) ==
    LET low == toLowerCase(text)
        sentences == split(text, {".", "!", "?"}, TRUE)
        words == SumWords(sentences)
        found ==
            (IF includes(low, "you must") \/ includes(low, "you should")
                THEN <<"Tone is too prescriptive">> ELSE <<>>)
            \o (IF words > 25 * Len(sentences) THEN <<"Sentences are too long">> ELSE <<>>)
            \o (IF complexWordCount(text) > 0
                THEN <<"Contains complex or technical jargon">> ELSE <<>>)
            \o CheckVague(low, 1)
    IN  [score |-> Max(0, 100 - Len(found) * 10),
         issues |-> found,
         suggestions |-> [k \in 1..Len(found) |-> contentSuggestion(found[k])],
         details |-> [words |-> words, sentences |-> Len(sentences),
                      complexWordCount |-> complexWordCount(text)]]

(***************************************************************************)
(* analyzers/patterns.ts                                                   *)
(***************************************************************************)
\* ANTI_PATTERNS followed by FORMATTING_PATTERNS; global is the g flag of the expression
RULES ==
    <<[pattern |-> "/\\{\\{.*?\\}\\}/g", global |-> TRUE, severity |-> "error",
       list |-> "anti",
       message |-> "Mustache-style templating syntax detected - use proper TypeScript string interpolation"],
      [pattern |-> "/\\$\\{[^}]+\\}/g", global |-> TRUE, severity |-> "warning",
       list |-> "anti",
       message |-> "String interpolation should be used sparingly in templates"],
      [pattern |-> "/\\b(var|let)\\b/g", global |-> TRUE, severity |-> "warning",
       list |-> "anti",
       message |-> "Prefer const for template variables unless reassignment is necessary"],
      [pattern |-> "/\\b(any)\\b/g", global |-> TRUE, severity |-> "error",
       list |-> "anti",
       message |-> "Avoid using \"any\" type - specify proper types for template variables"],
      [pattern |-> "/\\bconsole\\.(log|warn|error)\\b/g", global |-> TRUE,
       severity |-> "warning", list |-> "anti",
       message |-> "Remove debug console statements from template"],
      [pattern |-> "/^\\s*\\n\\s*\\n\\s*\\n/gm", global |-> TRUE, severity |-> "warning",
       list |-> "formatting",
       message |-> "Multiple consecutive blank lines detected"],
      [pattern |-> "/\\t/g", global |-> TRUE, severity |-> "warning",
       list |-> "formatting",
       message |-> "Use spaces for indentation instead of tabs"],
      [pattern |-> "/\\s+$/gm", global |-> TRUE, severity |-> "info",
       list |-> "formatting",
       message |-> "Trailing whitespace detected"],
      [pattern |-> "/[^\\n]\\n?$/", global |-> FALSE, severity |-> "info",
       list |-> "formatting",
       message |-> "File should end with a newline"]>>

\* /\{\{.*?\}\}/ at i: "{{", then the nearest "}}" with no line terminator before it
MustacheAt(text, i) ==
    IF ~LitAt(text, i, "{{") THEN 0
    ELSE LET Closes(j) == LitAt(text, j, "}}")
             j == FirstIn(i + 2, Len(text) - 1, Closes)
             stop == SkipWhile(text, i + 2, LineTerminators, FALSE)
         IN  IF j <= Len(text) - 1 /\ j < stop THEN j + 2 - i ELSE 0

\* /\$\{[^}]+\}/ at i
InterpolationAt(text, i) ==
    IF ~LitAt(text, i, "${") THEN 0
    ELSE LET j == SkipWhile(text, i + 2, {"}"}, FALSE)
         IN  IF j > i + 2 /\ j <= Len(text) THEN j + 1 - i ELSE 0

\* /\b(w1|w2|...)\b/ at i for the words given in the order of the alternation
RECURSIVE KeywordAt(_, _, _)
KeywordAt(text, i, words) ==
    IF words = <<>> \/ ~WordBoundary(text, i) THEN 0
    ELSE IF LitAt(text, i, words[1]) /\ WordBoundary(text, i + Len(words[1]))
    THEN Len(words[1])
    ELSE KeywordAt(text, i, Tail(words))

\* /^\s*\n\s*\n\s*\n/m at i: a line start, then white space up to the last newline of
\* the run when the run holds three newlines or more
BlankLinesAt(text, i) ==
    IF ~(LineStart(text, i) /\ i <= Len(text) /\ At(text, i) \in SpaceSet) THEN 0
    ELSE LET e == SkipWhile(text, i, SpaceSet, TRUE)
             newlines == {q \in i..(e - 1) : At(text, q) = "\n"}
         IN  IF Cardinality(newlines) >= 3
             THEN (CHOOSE q \in newlines : \A o \in newlines : o <= q) - i + 1
             ELSE 0

\* /\s+$/m at i: the longest run of white space from i that ends at the end of the
\* text or before a line terminator
TrailingAt(text, i) ==
    IF ~(i <= Len(text) /\ At(text, i) \in SpaceSet) THEN 0
    ELSE LET e == SkipWhile(text, i, SpaceSet, TRUE)
             ends == {q \in (i + 1)..(e - 1) : At(text, q) \in LineTerminators}
         IN  IF e = Len(text) + 1 THEN e - i
             ELSE IF ends # {} THEN (CHOOSE q \in ends : \A o \in ends : o <= q) - i
             ELSE 0

\* /[^\n]\n?$/ at i: a character other than a newline that is the last one of the
\* text, or the last one before a final newline
LastCharAt(text, i) ==
    IF i >= 1 /\ i <= Len(text) /\ At(text, i) # "\n"
          /\ (i = Len(text) \/ (i = Len(text) - 1 /\ At(text, Len(text)) = "\n"))
    THEN Len(text) - i + 1
    ELSE 0

\* length of the match of the expression of rule r that starts at position i, 0 if none
RuleAt(r, text, i) ==
    CASE r = 1 -> MustacheAt(text, i)
      [] r = 2 -> InterpolationAt(text, i)
      [] r = 3 -> KeywordAt(text, i, <<"var", "let">>)
      [] r = 4 -> KeywordAt(text, i, <<"any">>)
      [] r = 5 -> IF LitAt(text, i, "console.") /\ WordBoundary(text, i)
                  THEN LET n == KeywordAt(text, i + 8, <<"log", "warn", "error">>)
                       IN  IF n > 0 THEN 8 + n ELSE 0
                  ELSE 0
      [] r = 6 -> BlankLinesAt(text, i)
      [] r = 7 -> IF LitAt(text, i, "\t") THEN 1 ELSE 0
      [] r = 8 -> TrailingAt(text, i)
      [] r = 9 -> LastCharAt(text, i)

\* RegExp.prototype.exec: the search starts at lastIndex for a g-flag expression and at
\* 0 for any other; index is 0-based, -1 stands for null
exec(r, text, last) ==
    LET from == IF RULES[r].global THEN last ELSE 0
        Hit(j) == RuleAt(r, text, j) > 0
        p == FirstIn(from + 1, Len(text), Hit)
    IN  IF p > Len(text) THEN [index |-> -1, length |-> 0]
        ELSE [index |-> p - 1, length |-> RuleAt(r, text, p)]

\* the lastIndex exec leaves without the reset after a failed search
lastIndexKept(r, last, found) ==
    IF RULES[r].global /\ found.index >= 0 THEN found.index + found.length ELSE last

\* the lastIndex exec leaves on the RegExp object: the end of the match or, after a
\* failed search, 0 for a g-flag expression; any other expression keeps its lastIndex
lastIndexAfter(r, last, found) ==
    IF RULES[r].global
    THEN (IF found.index >= 0 THEN found.index + found.length ELSE 0)
    ELSE last

\* the PatternMatch pushed for a match of rule r at the 0-based index given
PatternMatch(r, text, index) ==
    LET before == {q \in 1..index : At(text, q) = "\n"}
        upTo == {q \in 1..Min(index + 1, Len(text)) : At(text, q) = "\n"}
        lastIndexOf == IF upTo = {} THEN -1
                       ELSE (CHOOSE q \in upTo : \A o \in upTo : o <= q) - 1
    IN  [pattern |-> RULES[r].pattern,
         line |-> Cardinality(before) + 1,
         column |-> index - lastIndexOf,
         severity |-> RULES[r].severity,
         message |-> RULES[r].message]

\* matches.filter(m => m.severity === severity).length
severityCount(found, severity) ==
    Cardinality({k \in 1..Len(found) : found[k].severity = severity})

patternScore(found) ==
    Max(0, 100 - severityCount(found, "error") * 15
               - severityCount(found, "warning") * 5
               - severityCount(found, "info") * 2)

(***************************************************************************)
(* Inputs: a template is a concatenation of at most MaxPieces pieces       *)
(***************************************************************************)
MaxPieces == 3

RECURSIVE Concats(_, _)
Concats(pieces, n) ==
    IF n = 0 THEN {""}
    ELSE LET shorter == Concats(pieces, n - 1)
         IN  shorter \cup {a \o p : a \in shorter, p \in pieces}

ValidatePieces ==
    {"ROLE:\n", "CONTEXT:\n", "ROLE:\nCONTEXT:\n", "TASK:\n", "FORMAT:\n",
     "{{a}}", "[b]", "${c}", " ", "might", "y", "Could"}

ValidateInputs == Concats(ValidatePieces, MaxPieces)

MaxBlocks == 3

\* section blocks, well formed and not
EnhancePieces ==
    {"ROLE: r\n\nCONTEXT: c\n\n", "TASK: t\n\n", "TASK:\n- b\n\n", "FORMAT: f\n",
     "role: r\n", "ROLE: r", "x\ny\n", "{{a\n", "b}}\n", "analyze [w] \n",
     "ROLE:\nCONTEXT:\nTASK:\nFORMAT:\n"}

EnhanceInputs == Concats(EnhancePieces, MaxBlocks)

\* the calls of one operation a caller makes in one process
MaxCalls == 3

(***************************************************************************)
(* State                                                                   *)
(***************************************************************************)
NoSections == [role |-> FALSE, context |-> FALSE, task |-> FALSE, format |-> FALSE]

NoMatch == [index |-> -1, length |-> 0]

\* the state in which an operation is entered with the template text
Start(operation, text) ==
    /\ op = operation
    /\ pc = "start"
    /\ content = text
    /\ violations = <<>>
    /\ isValid = FALSE
    /\ enhanced = ""
    /\ changes = <<>>
    /\ sections = NoSections
    /\ structureAnalysis = <<>>
    /\ contentAnalysis = <<>>
    /\ patternIdx = 1
    /\ lastIndex = [r \in 1..Len(RULES) |-> 0]
    /\ match = NoMatch
    /\ matches = <<>>
    /\ issues = <<>>
    /\ suggestions = <<>>
    /\ score = 0
    /\ calls = 1

(***************************************************************************)
(* validate_template                                                       *)
(***************************************************************************)
Validate ==
    /\ op = "validate"
    /\ pc = "start"
    /\ violations' = validateTemplate(content)
    /\ isValid' = verdict(violations')
    /\ pc' = "done"
    /\ UNCHANGED <<op, content, enhanceVars, analyzeVars>>

(***************************************************************************)
(* enhance_template: the four passes of enhanceTemplate, in order          *)
(***************************************************************************)
StructurePass ==
    /\ op = "enhance"
    /\ pc = "start"
    /\ sections' = identifySections(content)
    /\ LET pass == addMissingSections(content, sections')
       IN  enhanced' = pass.text /\ changes' = pass.log
    /\ pc' = "variables"
    /\ UNCHANGED <<op, content, validateVars, analyzeVars>>

VariablePass ==
    /\ op = "enhance"
    /\ pc = "variables"
    /\ LET pass == formatTemplateVariables(enhanced)
       IN  enhanced' = pass.text /\ changes' = changes \o pass.log
    /\ pc' = "formatting"
    /\ UNCHANGED <<op, content, sections, validateVars, analyzeVars>>

FormattingPass ==
    /\ op = "enhance"
    /\ pc = "formatting"
    /\ LET pass == improveFormatting(enhanced)
       IN  enhanced' = pass.text /\ changes' = changes \o pass.log
    /\ pc' = "redundancies"
    /\ UNCHANGED <<op, content, sections, validateVars, analyzeVars>>

RedundancyPass ==
    /\ op = "enhance"
    /\ pc = "redundancies"
    /\ LET pass == removeRedundancies(enhanced)
       IN  enhanced' = pass.text /\ changes' = changes \o pass.log
    /\ pc' = "done"
    /\ UNCHANGED <<op, content, sections, validateVars, analyzeVars>>

InitEnhance == \E text \in EnhanceInputs : Start("enhance", text)

NextEnhance == StructurePass \/ VariablePass \/ FormattingPass \/ RedundancyPass

SpecEnhance == InitEnhance /\ [][NextEnhance]_vars

\* the caller hands the enhancedContent it was returned to enhanceTemplate again
EnhanceAgain ==
    /\ op = "enhance"
    /\ pc = "done"
    /\ calls < MaxCalls
    /\ content' = enhanced
    /\ calls' = calls + 1
    /\ pc' = "start"
    /\ enhanced' = ""
    /\ changes' = <<>>
    /\ sections' = NoSections
    /\ UNCHANGED <<op, validateVars, structureAnalysis, contentAnalysis, patternIdx,
                   lastIndex, match, matches, issues, suggestions, score>>

NextEnhanceAgain == NextEnhance \/ EnhanceAgain

SpecEnhanceAgain == InitEnhance /\ [][NextEnhanceAgain]_vars

InitValidate == \E text \in ValidateInputs : Start("validate", text)

NextValidate == Validate

SpecValidate == InitValidate /\ [][NextValidate]_vars

(***************************************************************************)
(* analyze_template: analyzeTemplate, analyzeContent, then analyzePatterns *)
(* one step per evaluation of a loop condition and per loop body           *)
(***************************************************************************)
\* the records of matches kept in the state; a loop body past it leaves the list as it is
MaxMatches == 32

AnalyzeStructure ==
    /\ op = "analyze"
    /\ pc = "start"
    \* analyzeTemplate(input.template): the caller passes no metadata
    /\ structureAnalysis' = analyzeTemplate(content, "")
    /\ pc' = "content"
    /\ UNCHANGED <<op, content, calls, validateVars, enhanceVars, contentAnalysis, patternIdx,
                   lastIndex, match, matches, issues, suggestions, score>>

AnalyzeContent ==
    /\ op = "analyze"
    /\ pc = "content"
    /\ contentAnalysis' = analyzeContent(content)
    /\ pc' = "exec"
    /\ UNCHANGED <<op, content, calls, validateVars, enhanceVars, structureAnalysis, patternIdx,
                   lastIndex, match, matches, issues, suggestions, score>>

\* the loop condition (match = pattern.pattern.exec(content)) !== null when exec matches
ExecMatch ==
    /\ op = "analyze"
    /\ pc = "exec"
    /\ \E found \in {exec(patternIdx, content, lastIndex[patternIdx])} :
           /\ found.index >= 0
           /\ match' = found
           /\ lastIndex' = [lastIndex EXCEPT
                              ![patternIdx] = lastIndexAfter(patternIdx, lastIndex[patternIdx], found)]
    /\ pc' = "body"
    /\ UNCHANGED <<op, content, calls, validateVars, enhanceVars, structureAnalysis,
                   contentAnalysis, patternIdx, matches, issues, suggestions, score>>

\* the loop condition when exec returns null: the loop of the rule ends
ExecNull ==
    /\ op = "analyze"
    /\ pc = "exec"
    /\ \E found \in {exec(patternIdx, content, lastIndex[patternIdx])} :
           /\ found.index < 0
           /\ match' = NoMatch
           /\ lastIndex' = [lastIndex EXCEPT
                              ![patternIdx] = lastIndexAfter(patternIdx, lastIndex[patternIdx], found)]
    /\ IF patternIdx < Len(RULES)
       THEN patternIdx' = patternIdx + 1 /\ pc' = "exec"
       ELSE patternIdx' = patternIdx /\ pc' = "return"
    /\ UNCHANGED <<op, content, calls, validateVars, enhanceVars, structureAnalysis,
                   contentAnalysis, matches, issues, suggestions, score>>

\* the body of the while loops
LoopBody ==
    /\ op = "analyze"
    /\ pc = "body"
    /\ matches' = IF Len(matches) < MaxMatches
                  THEN Append(matches, PatternMatch(patternIdx, content, match.index))
                  ELSE matches
    /\ IF \A k \in 1..Len(issues) : issues[k] # RULES[patternIdx].message
       THEN /\ issues' = Append(issues, RULES[patternIdx].message)
            /\ suggestions' =
                  Append(suggestions,
                         (IF RULES[patternIdx].list = "anti"
                          THEN "Fix " \o RULES[patternIdx].severity \o ": "
                          ELSE "Fix formatting: ") \o RULES[patternIdx].message)
       ELSE UNCHANGED <<issues, suggestions>>
    /\ pc' = "exec"
    /\ UNCHANGED <<op, content, calls, validateVars, enhanceVars, structureAnalysis,
                   contentAnalysis, patternIdx, lastIndex, match, score>>

PatternsReturn ==
    /\ op = "analyze"
    /\ pc = "return"
    /\ score' = patternScore(matches)
    /\ pc' = "done"
    /\ UNCHANGED <<op, content, calls, validateVars, enhanceVars, structureAnalysis,
                   contentAnalysis, patternIdx, lastIndex, match, matches, issues, suggestions>>

MaxParts == 3

AnalyzePieces ==
    {"(a)(b)(c)(d)(e)(f)", "{{a}} any {{b}} any {{c}} any {{d}}\n\n", "let ${c}\t \n\n",
     "\n\n", "ROLE: is was\n", "console.log you must etc."}

AnalyzeInputs == Concats(AnalyzePieces, MaxParts)

InitAnalyze == \E text \in AnalyzeInputs : Start("analyze", text)

NextAnalyze ==
    AnalyzeStructure \/ AnalyzeContent \/ ExecMatch \/ ExecNull \/ LoopBody \/ PatternsReturn

SpecAnalyze == InitAnalyze /\ [][NextAnalyze]_vars

\* the steps of analyzePatterns: its loop conditions, its loop bodies and its return
PatternsStep == ExecMatch \/ ExecNull \/ LoopBody \/ PatternsReturn

\* the scan takes its next step whenever it has one: the process keeps running
FairAnalyze == SpecAnalyze /\ WF_vars(PatternsStep)

(***************************************************************************)
(* analyze_template entered again in the same process: the RegExp objects  *)
(* of the catalogues are module-level and keep their lastIndex, everything *)
(* else is local to a call                                                 *)
(***************************************************************************)
MaxRepeatParts == 2

RepeatInputs == Concats(AnalyzePieces, MaxRepeatParts)

\* the caller, holding the result of a call, calls again on any text
CallAgain ==
    /\ op = "analyze"
    /\ pc = "done"
    /\ calls < MaxCalls
    /\ \E text \in RepeatInputs : content' = text
    /\ calls' = calls + 1
    /\ pc' = "start"
    /\ structureAnalysis' = <<>>
    /\ contentAnalysis' = <<>>
    /\ patternIdx' = 1
    /\ match' = NoMatch
    /\ matches' = <<>>
    /\ issues' = <<>>
    /\ suggestions' = <<>>
    /\ score' = 0
    /\ UNCHANGED <<op, lastIndex, validateVars, enhanceVars>>

InitRepeat == \E text \in RepeatInputs : Start("analyze", text)

NextRepeat == NextAnalyze \/ CallAgain

SpecRepeat == InitRepeat /\ [][NextRepeat]_vars

(***************************************************************************)
(* Claims about validate_template                                          *)
(***************************************************************************)
ValidateDone == op = "validate" /\ pc = "done"

\* how many violations satisfy P
Count(found, P(_)) == Cardinality({k \in 1..Len(found) : P(found[k])})

\* C2: validateTemplate(t).isValid is true exactly when the violation list is empty;
\* a result holding only warnings is still invalid.
C2_ValidIffNoViolations == ValidateDone => (isValid <=> violations = <<>>)

C2_Witness ==
    /\ ValidateDone
    /\ violations # <<>>
    /\ \A k \in 1..Len(violations) : violations[k].severity = "warning"
    /\ ~isValid

\* the three variable syntaxes as the specification describes them: {{name}}, [name], ${name}
C4_Syntaxes(text) ==
    {f \in {"doubleBrace", "bracket", "dollarBrace"} :
        \E i \in 1..Len(text) :
            CASE f = "doubleBrace" -> DoubleBraceAt(text, i) > 0
              [] f = "bracket" -> BracketAt(text, i) > 0
              [] f = "dollarBrace" -> DollarBraceAt(text, i) > 0}

C4_IsFormatError(v) == v.rule = "variable-format" /\ v.severity = "error"

\* C4: an input that uses more than one variable syntax gets exactly one
\* 'variable-format' error, an input that uses at most one gets none.
C4_MixedSyntaxOneError ==
    ValidateDone =>
        Count(violations, C4_IsFormatError)
            = (IF Cardinality(C4_Syntaxes(content)) > 1 THEN 1 ELSE 0)

\* canonical rank: ROLE < CONTEXT < TASK < FORMAT/OUTPUT
C5_Rank(section) ==
    CASE section = "ROLE" -> 0
      [] section = "CONTEXT" -> 1
      [] section = "TASK" -> 2
      [] section \in {"FORMAT", "OUTPUT"} -> 3

\* the section lines ranked lower than some section line seen earlier
C5_OutOfOrder(found) ==
    {k \in 1..Len(found) : \E j \in 1..(k - 1) : C5_Rank(found[j]) > C5_Rank(found[k])}

\* C5: every section line ranked lower than some earlier section line gets a
\* 'section-order' violation, and every 'section-order' violation is a warning.
C5_EveryOutOfOrderLineWarned ==
    ValidateDone =>
        LET found == foundSections(content)
            IsOrder(v) == v.rule = "section-order"
        IN  /\ \A x \in {found[k] : k \in C5_OutOfOrder(found)} :
                LET Names(v) == v = OrderViolation(x)
                IN  Count(violations, Names)
                        >= Cardinality({k \in C5_OutOfOrder(found) : found[k] = x})
            /\ \A k \in 1..Len(violations) :
                IsOrder(violations[k]) => violations[k].severity = "warning"

C6_IsSchemaError(v) == v.rule = "schema" /\ v.severity = "error"

\* C6: a 'schema' error is reported exactly when the content is empty or holds only
\* whitespace.
C6_SchemaErrorIffBlank ==
    ValidateDone =>
        ((Count(violations, C6_IsSchemaError) > 0)
            <=> (\A i \in 1..Len(content) : At(content, i) \in SpaceSet))

\* the positions where term stands as a whole word: no word character next to it
C8_WholeWordAt(text, term) ==
    {i \in 1..(Len(text) - Len(term) + 1) :
        /\ \A k \in 1..Len(term) : At(text, i + k - 1) \in {At(term, k), UpperChar(At(term, k))}
        /\ (i = 1 \/ At(text, i - 1) \notin WordSet)
        /\ (i + Len(term) > Len(text) \/ At(text, i + Len(term)) \notin WordSet)}

\* C8: each of the seven terms gets exactly one 'ambiguous-language' warning naming it
\* when it occurs as a whole word, however often, and none otherwise.
C8_OneWarningPerWholeWordTerm ==
    ValidateDone =>
        LET whole == {k \in 1..Len(ambiguousTerms) :
                         C8_WholeWordAt(content, ambiguousTerms[k]) # {}}
            IsAmbiguous(v) == v.rule = "ambiguous-language"
        IN  /\ Count(violations, IsAmbiguous) = Cardinality(whole)
            /\ \A k \in 1..Len(ambiguousTerms) :
                  LET Names(v) == /\ v.rule = "ambiguous-language"
                                  /\ v.severity = "warning"
                                  /\ v.message = AmbiguousMessage(ambiguousTerms[k])
                  IN  Count(violations, Names) = (IF k \in whole THEN 1 ELSE 0)

C8_Witness ==
    LET Names(v) == v.rule = "ambiguous-language" /\ v.message = AmbiguousMessage("might")
    IN  /\ ValidateDone
        /\ Cardinality(C8_WholeWordAt(content, "might")) >= 2
        /\ Count(violations, Names) = 1

(***************************************************************************)
(* Claims about enhance_template                                           *)
(***************************************************************************)
EnhanceDone == op = "enhance" /\ pc = "done"

\* the positions where one of the labels, followed by ":", starts a line, in any case
LabelLines(text, labels) ==
    {i \in 1..Len(text) : LineStart(text, i) /\ \E l \in labels : LitAtCI(text, i, l \o ":")}

\* the four required sections, FORMAT standing for FORMAT or OUTPUT
RequiredSections == <<{"ROLE"}, {"CONTEXT"}, {"TASK"}, {"FORMAT", "OUTPUT"}>>

AllLabels == {"ROLE", "CONTEXT", "TASK", "FORMAT", "OUTPUT"}

\* a variable token in the canonical form: {{ and }} around word characters only
C3_CanonicalToken(token) ==
    /\ Len(token) > 4
    /\ SubSeq(token, 1, 2) = "{{"
    /\ SubSeq(token, Len(token) - 1, Len(token)) = "}}"
    /\ \A k \in 3..(Len(token) - 2) : At(token, k) \in WordSet

\* the template is fully structured (each label once, in the canonical order, in upper
\* case, after a blank line), canonically formatted, variable-normalized and free of
\* duplicates, as the claim lists it
C3_Canonical(text) ==
    /\ \A l \in {"ROLE", "CONTEXT", "TASK", "FORMAT"} :
          \E i \in 1..Len(text) : LineStart(text, i) /\ LitAt(text, i, l \o ":")
    /\ \A i, j \in LabelLines(text, AllLabels) :
          (i < j) => \E a, b \in 1..Len(sectionOrder) :
                        /\ a < b
                        /\ LitAt(text, i, sectionOrder[a] \o ":")
                        /\ LitAt(text, j, sectionOrder[b] \o ":")
    /\ \A i \in LabelLines(text, AllLabels) :
          /\ \E l \in AllLabels : LitAt(text, i, l \o ":")
          /\ i = 1 \/ (i >= 3 /\ SubSeq(text, i - 2, i - 1) = "\n\n")
    /\ LET tokens == MatchAll(text, 1, "any")
       IN  \A k \in 1..Len(tokens) : C3_CanonicalToken(tokens[k])
    /\ \A i \in 1..Len(text) :
          (LineStart(text, i) /\ At(text, i) \in {"-", "*"})
              => /\ i + 2 <= Len(text)
                 /\ SubSeq(text, i, i + 1) = "- "
                 /\ At(text, i + 2) \notin SpaceSet
    /\ \A i \in 1..Len(text) : At(text, i) \in {" ", "\t"} => ~LineEnd(text, i + 1)
    /\ LET lines == split(text, {"\n"}, FALSE)
       IN  \A j, k \in 1..Len(lines) :
              (j < k /\ trim(lines[j]) # "")
                  => toLowerCase(trim(lines[j])) # toLowerCase(trim(lines[k]))

\* C3: enhancing a template that is already fully structured, canonically formatted,
\* variable-normalized and duplicate-free returns it unchanged with an empty change log.
C3_CanonicalIsFixedPoint ==
    (EnhanceDone /\ C3_Canonical(content)) => (enhanced = content /\ changes = <<>>)

\* C7: for an input with no section label at a line start the result has ROLE:, CONTEXT:,
\* TASK: and FORMAT: each at a line start exactly once and in that order, and the change
\* log holds the basic-structure entry and no "Added missing ... section" entry.
C7_BasicStructureAdded ==
    (EnhanceDone /\ LabelLines(content, AllLabels) = {}) =>
        LET At1(l) == {i \in 1..Len(enhanced) : LineStart(enhanced, i) /\ LitAt(enhanced, i, l)}
            Only(l) == CHOOSE i \in At1(l) : TRUE
        IN  /\ \A l \in {"ROLE:", "CONTEXT:", "TASK:", "FORMAT:"} : Cardinality(At1(l)) = 1
            /\ Only("ROLE:") < Only("CONTEXT:")
            /\ Only("CONTEXT:") < Only("TASK:")
            /\ Only("TASK:") < Only("FORMAT:")
            /\ \E k \in 1..Len(changes) :
                  changes[k] = "Added basic template structure (ROLE, CONTEXT, TASK, FORMAT sections)"
            /\ \A k \in 1..Len(changes) : ~LitAt(changes[k], 1, "Added missing")

\* the "Added missing X section" entries for the required sections absent from text
RECURSIVE C10_Expected(_, _)
C10_Expected(text, k) ==
    IF k > Len(RequiredSections) THEN <<>>
    ELSE (IF LabelLines(text, RequiredSections[k]) = {}
          THEN <<"Added missing " \o <<"ROLE", "CONTEXT", "TASK", "FORMAT">>[k] \o " section">>
          ELSE <<>>) \o C10_Expected(text, k + 1)

\* C10: when the input has some but not all of the four sections, the structure pass
\* leaves a text with all four sections at a line start and logs an "Added missing X
\* section" entry for exactly the sections X absent from the input.
C10_MissingSectionsInserted ==
    LET present == {k \in 1..Len(RequiredSections) : LabelLines(content, RequiredSections[k]) # {}}
    IN  (op = "enhance" /\ pc = "variables" /\ present # {}
            /\ Cardinality(present) < Len(RequiredSections)) =>
            /\ \A k \in 1..Len(RequiredSections) : LabelLines(enhanced, RequiredSections[k]) # {}
            /\ changes = C10_Expected(content, 1)

(***************************************************************************)
(* Claims about analyze_template                                           *)
(***************************************************************************)
\* C1: each operation terminates and returns a value for every input; for analyze, once
\* analyzePatterns is entered every scan loop over ANTI_PATTERNS and FORMATTING_PATTERNS
\* ends and the operation reaches its return.
C1_AnalyzeTerminates == (op = "analyze" /\ pc = "exec") ~> (pc = "done")

\* C9: clarity, conciseness and consistency of analyzeTemplate lie in [0, 1] (0..10
\* tenths) and the score of analyzePatterns lies in [0, 100].
C9_ScoresInRange ==
    /\ (op = "analyze" /\ pc # "start") =>
          /\ structureAnalysis.quality.clarity \in 0..10
          /\ structureAnalysis.quality.conciseness \in 0..10
          /\ structureAnalysis.quality.consistency \in 0..10
    /\ (op = "analyze" /\ pc = "done") => score \in 0..100

\* a returned result whose clarity and pattern score were both cut off at 0
C9_Witness ==
    /\ op = "analyze"
    /\ pc = "done"
    /\ nestedCount(content) > 10
    /\ structureAnalysis.quality.clarity = 0
    /\ Len(matches) < MaxMatches
    /\ severityCount(matches, "error") * 15 > 100
    /\ score = 0

\* the flags of analyzeTemplate in the order of RequiredSections
C11_Flags(structure) ==
    <<structure.hasRole, structure.hasContext, structure.hasTask, structure.hasResponseFormat>>

\* validateTemplate on the text emits a "Missing ... section" violation for section k
C11_ReportedMissing(text, k) ==
    LET name == <<"ROLE", "CONTEXT", "TASK", "FORMAT/OUTPUT">>[k]
        found == validateTemplate(text)
    IN  \E v \in 1..Len(found) : found[v].message = "Missing " \o name \o " section"

\* C11: each structure flag of analyzeTemplate is true exactly when some line of the text
\* begins with the label of the section and a colon, in any case, which is exactly when
\* validateTemplate on the same text emits no "Missing ... section" violation for it.
C11_FlagsAreLineAnchored ==
    (op = "analyze" /\ pc # "start") =>
        \A k \in 1..Len(RequiredSections) :
            /\ C11_Flags(structureAnalysis.structure)[k]
                   <=> (LabelLines(content, RequiredSections[k]) # {})
            /\ C11_Flags(structureAnalysis.structure)[k] <=> ~C11_ReportedMissing(content, k)

\* analyzePatterns is at its first loop condition: no rule has been searched yet
C12_CallStarts == op = "analyze" /\ pc = "exec" /\ patternIdx = 1 /\ matches = <<>>

\* the occurrence records of a scan in which every rule from r on is searched from
\* position 0 onwards, found being the records so far and last the end of the last match
RECURSIVE C12_Scan(_, _, _, _)
C12_Scan(text, r, last, found) ==
    LET m == exec(r, text, last)
    IN  IF m.index < 0
        THEN (IF r = Len(RULES) THEN found ELSE C12_Scan(text, r + 1, 0, found))
        ELSE IF ~RULES[r].global THEN found
        ELSE C12_Scan(text, r, m.index + m.length,
                      Append(found, PatternMatch(r, text, m.index)))

\* the messages of the records, each once, in the order of their first record
RECURSIVE C12_Messages(_)
C12_Messages(found) ==
    IF found = <<>> THEN <<>>
    ELSE LET front == C12_Messages(SubSeq(found, 1, Len(found) - 1))
             message == found[Len(found)].message
         IN  IF \E k \in 1..Len(front) : front[k] = message THEN front
             ELSE Append(front, message)

\* C12: whatever calls came before in the process, every g-flag pattern of ANTI_PATTERNS
\* and FORMATTING_PATTERNS has lastIndex 0 when a call of analyzePatterns starts, and the
\* call returns the matches, issues and score of a first call on the same text.
C12_CallsAreIndependent ==
    /\ C12_CallStarts => \A r \in 1..Len(RULES) : RULES[r].global => lastIndex[r] = 0
    /\ (op = "analyze" /\ pc = "done") =>
          LET first == C12_Scan(content, 1, 0, <<>>)
          IN  /\ matches = first
              /\ issues = C12_Messages(first)
              /\ score = patternScore(first)

\* a third call returned with several matches of one g-flag rule
C12_Witness ==
    /\ op = "analyze"
    /\ pc = "done"
    /\ calls = 3
    /\ \E j, k \in 1..Len(matches) : j < k /\ matches[j].pattern = matches[k].pattern

\* the number of occurrences of rule r in the text from the 0-based position on: the
\* matches of its expression, left to right, none overlapping another
RECURSIVE C13_Occurrences(_, _, _)
C13_Occurrences(r, text, from) ==
    LET Hit(j) == RuleAt(r, text, j) > 0
        p == FirstIn(from + 1, Len(text), Hit)
    IN  IF p > Len(text) THEN 0
        ELSE 1 + C13_Occurrences(r, text, p - 1 + RuleAt(r, text, p))

\* the occurrence records of rule r
C13_Records(r) == {k \in 1..Len(matches) : matches[k].message = RULES[r].message}

\* the occurrences in the text of the rules of the severity given
RECURSIVE C13_Total(_, _, _)
C13_Total(text, severity, r) ==
    IF r > Len(RULES) THEN 0
    ELSE (IF RULES[r].severity = severity THEN C13_Occurrences(r, text, 0) ELSE 0)
             + C13_Total(text, severity, r + 1)

\* C13: analyzePatterns records one entry in patternMatches per occurrence of every rule
\* (never more than the text has, and all of them in the result), lists the message of
\* each firing rule exactly once in issues, and returns the score
\* max(0, 100 - 15*E - 5*W - 2*I) over the occurrences of each severity.
C13_OneRecordPerOccurrence ==
    (op = "analyze") =>
        /\ \A r \in 1..Len(RULES) :
              Cardinality(C13_Records(r)) <= C13_Occurrences(r, content, 0)
        /\ \A j, k \in 1..Len(issues) : (j # k) => issues[j] # issues[k]
        /\ \A k \in 1..Len(issues) : \E r \in 1..Len(RULES) :
              issues[k] = RULES[r].message /\ C13_Records(r) # {}
        /\ (pc = "done") =>
              /\ \A r \in 1..Len(RULES) :
                    /\ Cardinality(C13_Records(r)) = C13_Occurrences(r, content, 0)
                    /\ (C13_Records(r) # {})
                           => \E k \in 1..Len(issues) : issues[k] = RULES[r].message
              /\ score = Max(0, 100 - 15 * C13_Total(content, "error", 1)
                                    - 5 * C13_Total(content, "warning", 1)
                                    - 2 * C13_Total(content, "info", 1))

\* the number of the four transformation categories of the formatting pass that alter the
\* text they are handed, each being applied to the result of the one before
C14_Altered(text) ==
    LET e1 == capitalizeSections(text, 1)
        e2 == separateSections(e1, 1)
        e3 == standardizeBullets(e2, 1)
        e4 == stripTrailing(e3, 1)
    IN  (IF e1 # text THEN 1 ELSE 0) + (IF e2 # e1 THEN 1 ELSE 0)
            + (IF e3 # e2 THEN 1 ELSE 0) + (IF e4 # e3 THEN 1 ELSE 0)

\* C14: the formatting pass appends to changes one entry for each of its four categories
\* (upper-casing labels, blank line before a label, bullet glyphs, trailing whitespace)
\* that altered the text and none for the others; it appends nothing when its output
\* equals its input and something when it differs.
C14_OneEntryPerCategory ==
    [][FormattingPass =>
          /\ Len(changes') = Len(changes) + C14_Altered(enhanced)
          /\ SubSeq(changes', 1, Len(changes)) = changes
          /\ (enhanced' = enhanced) <=> (changes' = changes)]_vars

\* line k is blank, is a section-label line, or is the first line with its text, the
\* lines being compared trimmed and in lower case
C15_Keeps(lines, k) ==
    LET text == toLowerCase(trim(lines[k]))
    IN  \/ text = ""
        \/ LabelLines(text, AllLabels) \cap {1} # {}
        \/ \A j \in 1..(k - 1) : toLowerCase(trim(lines[j])) # text

\* the lines from k on that are kept
RECURSIVE C15_Select(_, _)
C15_Select(lines, k) ==
    IF k > Len(lines) THEN <<>>
    ELSE (IF C15_Keeps(lines, k) THEN <<lines[k]>> ELSE <<>>) \o C15_Select(lines, k + 1)

\* C15: the deduplication pass keeps the first occurrence of every non-blank line that
\* is no section label and removes every later one, and the N of the entry "Removed N
\* duplicate instruction(s)" it logs is the number of lines removed, also for a line
\* that occurs three times or more.
C15_RemovedLinesCounted ==
    [][RedundancyPass =>
          LET before == split(enhanced, {"\n"}, FALSE)
              after == split(enhanced', {"\n"}, FALSE)
              removed == Len(before) - Len(after)
          IN  /\ after = C15_Select(before, 1)
              /\ changes' = changes \o
                    (IF removed > 0
                     THEN <<"Removed " \o ToString(removed) \o " duplicate instruction(s)">>
                     ELSE <<>>)]_vars

\* position i of the text starts a line that is the first line or follows an empty line
C16_AfterEmptyLine(text, i) ==
    \/ i = 1
    \/ /\ At(text, i - 1) = "\n"
       /\ i = 2 \/ At(text, i - 2) = "\n"

\* C16: after the formatting pass every line that begins with a section label and a
\* colon, the first line of the text apart, is immediately preceded by an empty line,
\* also when label lines with empty bodies follow each other.
C16_BlankLineBeforeLabels ==
    (op = "enhance" /\ pc = "redundancies") =>
        \A i \in LabelLines(enhanced, AllLabels) : C16_AfterEmptyLine(enhanced, i)

\* C17: enhanceTemplate is idempotent on its own output: handed the enhancedContent of
\* an earlier call, the four passes return it unchanged.
C17_OutputIsFixedPoint ==
    (EnhanceDone /\ calls > 1) => enhanced = content

\* the 'section-order' warnings validateTemplate emits for the text
C18_OrderWarnings(text) ==
    LET found == validateTemplate(text)
    IN  {k \in 1..Len(found) : found[k].rule = "section-order"}

\* C18: enhanceTemplate introduces no section-order violation: when validateTemplate
\* emits no 'section-order' warning for the input it emits none for enhancedContent,
\* whichever sections the structure pass had to insert.
C18_OrderPreserved ==
    (EnhanceDone /\ C18_OrderWarnings(content) = {}) => C18_OrderWarnings(enhanced) = {}

====
